---- MODULE Spec2Model ----
(***************************************************************************)
(* Model of the Telegram -> Discord bridge: bridge/core.py (class Bridge)  *)
(* with discord_handler.py.  The history manager (bridge.history) and the  *)
(* Telegram helpers (bridge.telegram_handler) are collaborators whose      *)
(* code is elsewhere; they are modelled from their documented contract.    *)
(***************************************************************************)
EXTENDS Integers, Sequences, FiniteSets, Bags, TLC

\* ------------------------------------------------------------------ bounds
\* highest Telegram message id posted in the source channel
MaxMsgId == 2
\* most parts split_message cuts one text into
MaxParts == 2
\* most Discord messages created in one run
MaxDiscord == 2

\* ------------------------------------------------------------------ values
None == 0
NoError == "none"
\* exceptions of discord.py that a destination call raises
DiscordErrors == {"NotFound", "Forbidden", "HTTPException"}
\* the single source channel and the two destination channels
TgChannel == 1
ForwarderNames == {"A", "B"}
DiscordChannelOf(name) == IF name = "A" THEN 10 ELSE 20

\* str.lower() on the hashtags of the model
Lower(tag) ==
    CASE tag = "NEWS" -> "news"
      [] tag = "News" -> "news"
      [] tag = "Draft" -> "draft"
      [] tag = "DRAFT" -> "draft"
      [] OTHER -> tag

\* the hashtags a Telegram message can carry, as typed by its author
MessageTagSets == {{}, {"NEWS"}, {"DRAFT"}, {"NEWS", "DRAFT"}}

\* the messages posted while the recovery loop is explored
ReplayShapes ==
    {[hashtags |-> {"NEWS"}, media |-> FALSE, parts |-> 1, reply |-> FALSE],
     [hashtags |-> {"DRAFT"}, media |-> FALSE, parts |-> 1, reply |-> FALSE]}

\* ForwarderConfig: one configured route
ForwarderConfig(name, fe, allow, deny, override) ==
    [forwarder_name |-> name,
     tg_channel_id |-> TgChannel,
     discord_channel_id |-> DiscordChannelOf(name),
     forward_everything |-> fe,
     forward_hashtags |-> allow,
     excluded_hashtags |-> deny,
     mention_override |-> override,
     mention_everyone |-> FALSE]

AllowLists == {{}, {[name |-> "News", override_mention_everyone |-> TRUE]}}
DenyLists == {{}, {[name |-> "Draft"]}}
MentionOverrides == {{}, {"news"}}

\* every policy a route can be configured with
Policies(name) ==
    {ForwarderConfig(name, fe, al, dl, mo) :
        fe \in BOOLEAN, al \in AllowLists, dl \in DenyLists, mo \in MentionOverrides}

\* one route, with any policy
RouterConfigs == {<<a>> : a \in Policies("A")}

\* two routes on the same source channel: a filtering route and a route that
\* forwards everything, in both orders
HandlerConfigs ==
    {<<ForwarderConfig("A", FALSE, {[name |-> "News", override_mention_everyone |-> TRUE]},
                       {[name |-> "Draft"]}, {}),
       ForwarderConfig("B", TRUE, {}, {}, {})>>,
     <<ForwarderConfig("B", TRUE, {}, {}, {}),
       ForwarderConfig("A", FALSE, {[name |-> "News", override_mention_everyone |-> TRUE]},
                       {[name |-> "Draft"]}, {})>>}

\* the configuration under which the recovery loop is explored: both routes
\* forward a #news message, only the first one a #draft message
ReplayConfigs ==
    {<<ForwarderConfig("A", TRUE, {}, {}, {"news"}),
       ForwarderConfig("B", TRUE, {}, {[name |-> "Draft"]}, {})>>}

\* the configuration under which the progress of the loop is explored
FairConfigs == {<<ForwarderConfig("A", TRUE, {}, {}, {"news"})>>}

\* the messages posted while the handlers are explored: forwarded by both
\* routes, as text or media, in one part or several
HandlerShapes ==
    {[hashtags |-> {"NEWS"}, media |-> m, parts |-> n, reply |-> FALSE] :
        m \in BOOLEAN, n \in 1..MaxParts}

\* the shapes of a Telegram message: its hashtags, whether it carries media,
\* and the number of parts its text is split into
MessageShapes ==
    {[hashtags |-> t, media |-> m, parts |-> 1, reply |-> FALSE] :
        t \in MessageTagSets, m \in BOOLEAN}

\* the configuration under which replies are explored: one route that
\* forwards everything
ReplyConfigs == {<<ForwarderConfig("A", TRUE, {}, {}, {"news"})>>}

\* the messages posted while replies are explored: with or without media,
\* replying to the message posted before them or to none
ReplyShapes ==
    {[hashtags |-> {"NEWS"}, media |-> m, parts |-> n, reply |-> r] :
        m \in BOOLEAN, n \in 1..MaxParts, r \in BOOLEAN}

\* the display name of the source channel TgChannel (a name is never equal
\* to an id)
TgChannelName == 101

\* the id of a dialog that is a private chat, not a channel
OtherChat == 2

\* depth of nested calls at which the interpreter raises RecursionError
RecursionLimit == 3

\* the dialogs of the Telegram account: the source channel and a private chat
LiveChannel == [id |-> TgChannel, name |-> TgChannelName, is_channel |-> TRUE]

PrivateChat == [id |-> OtherChat, name |-> TgChannelName, is_channel |-> FALSE]

\* what iter_dialogs can list, in its order
DialogLists == {<<LiveChannel>>, <<PrivateChat, LiveChannel>>, <<PrivateChat>>}

\* what a route can name as its source channel: the id of the channel, its
\* display name, or the id of the private chat
ChannelRefs == {TgChannel, TgChannelName, OtherChat}

\* a route that forwards everything from the source it names
RouteOn(name, ref) ==
    [ForwarderConfig(name, TRUE, {}, {}, {"news"}) EXCEPT !.tg_channel_id = ref]

\* the configurations under which the start of the bridge is explored
StartupConfigs ==
    {<<RouteOn("A", x)>> : x \in ChannelRefs}
    \cup {<<RouteOn("A", x), RouteOn("B", y)>> : x, y \in ChannelRefs}

VARIABLES
    startup,               \* Bridge.start: position, client, dialogs, handlers
    telegram_forwarders,   \* config.telegram_forwarders: sequence of routes
    tg_messages,           \* messages present in the source channel
    live_events,           \* NewMessage events Telethon has still to dispatch
    internet_connected,    \* config.application.internet_connected
    telegram_is_healthy,   \* config.telegram.is_healthy
    discord_is_healthy,    \* config.discord.is_healthy
    mapping_data,          \* history: bag of (forwarder, telegram id, discord id)
    cursor,                \* history: last mapped telegram id per forwarder
    missed_messages,       \* history: missed-forward records
    discord_messages,      \* messages present in the destination channels
    next_discord_id,       \* id Discord gives to the next message
    rec_state,             \* on_restored_connectivity: WAITING/CHECKING/REPLAYING
    last_messages,         \* on_restored_connectivity: forwarders still to do
    rec_forwarder,         \* on_restored_connectivity: forwarder being replayed
    fetched_messages,      \* on_restored_connectivity: messages still to replay
    tick,                  \* what the current tick of the loop has done
    backlog,               \* what the loop fetched and no route has mapped yet
    last_call              \* what the event handler that just ended did

vars == <<startup, telegram_forwarders, tg_messages, live_events, internet_connected,
          telegram_is_healthy, discord_is_healthy, mapping_data, cursor,
          missed_messages, discord_messages, next_discord_id, rec_state,
          last_messages, rec_forwarder, fetched_messages, tick, backlog,
          last_call>>

\* ------------------------------------------------------------------ helpers
Max(a, b) == IF a >= b THEN a ELSE b

\* the sequences that list every element of the finite set S once
RECURSIVE Orderings(_)
Orderings(S) ==
    IF S = {} THEN {<<>>}
    ELSE UNION {{<<x>> \o rest : rest \in Orderings(S \ {x})} : x \in S}

\* the elements of the set of messages S by ascending id
RECURSIVE SortedById(_)
SortedById(S) ==
    IF S = {} THEN <<>>
    ELSE LET m == CHOOSE x \in S : \A y \in S : x.id <= y.id
         IN <<m>> \o SortedById(S \ {m})

\* ------------------------------------------------- telegram_handler (contract)
\* get_message_forward_hashtags: the hashtags of the message, matched
\* case-insensitively against the configured tags
get_message_forward_hashtags(message) == {Lower(t) : t \in message.hashtags}

\* ---------------------------------------------------------- history (contract)
MappingsOf(md, name, tg_id) ==
    {r \in BagToSet(md) : r.forwarder_name = name /\ r.telegram_id = tg_id}

\* number of mappings stored under one key
MappingCount(md, name, tg_id) ==
    LET S == MappingsOf(md, name, tg_id)
        RECURSIVE Sum(_)
        Sum(T) == IF T = {} THEN 0
                  ELSE LET r == CHOOSE x \in T : TRUE
                       IN CopiesIn(r, md) + Sum(T \ {r})
    IN Sum(S)

\* lookup(route, source_id)
get_discord_message_id(md, name, tg_id) ==
    IF MappingsOf(md, name, tg_id) = {} THEN None
    ELSE (CHOOSE r \in MappingsOf(md, name, tg_id) : TRUE).discord_id

\* a record() that appends without looking for the key
record_append(md, name, tg_id, discord_id) ==
    md (+) SetToBag({[forwarder_name |-> name, telegram_id |-> tg_id,
                      discord_id |-> discord_id]})

\* record(route, source_id, destination_id): a second call for the same key
\* overwrites rather than duplicates
record(md, name, tg_id, discord_id) ==
    LET keep == BagToSet(md) \ MappingsOf(md, name, tg_id)
    IN [r \in keep |-> md[r]]
       (+) SetToBag({[forwarder_name |-> name, telegram_id |-> tg_id,
                      discord_id |-> discord_id]})

\* an advance_cursor() that takes the id of the last write
advance_cursor_last(cur, name, tg_id) == [cur EXCEPT ![name] = tg_id]

\* advance_cursor(route, source_id): only advances forward
advance_cursor(cur, name, tg_id) == [cur EXCEPT ![name] = Max(@, tg_id)]

\* save_missed_message(forwarder_name, telegram id, discord channel id, None)
save_missed_message(mm, name, tg_id, channel_id) ==
    mm \cup {[forwarder_name |-> name, telegram_id |-> tg_id,
              discord_channel_id |-> channel_id]}

\* a history that lists only the forwarders that have a mapping
RECURSIVE get_last_messages_of_mapped(_, _)
get_last_messages_of_mapped(cur, forwarders) ==
    IF forwarders = <<>> THEN <<>>
    ELSE (IF cur[Head(forwarders).forwarder_name] = 0 THEN <<>>
          ELSE <<[forwarder_name |-> Head(forwarders).forwarder_name,
                  telegram_id |-> cur[Head(forwarders).forwarder_name]]>>)
         \o get_last_messages_of_mapped(cur, Tail(forwarders))

\* get_last_messages_for_all_forwarders: cursor(route) of every subscription
RECURSIVE get_last_messages_for_all_forwarders(_, _)
get_last_messages_for_all_forwarders(cur, forwarders) ==
    IF forwarders = <<>> THEN <<>>
    ELSE <<[forwarder_name |-> Head(forwarders).forwarder_name,
            telegram_id |-> cur[Head(forwarders).forwarder_name]]>>
         \o get_last_messages_for_all_forwarders(cur, Tail(forwarders))

\* fetch_messages_after: the messages of the channel with id > last id, in
\* whatever order the network returns them
fetch_messages_after(last_tg_message_id, channel_id, messages) ==
    Orderings({m \in messages :
                   m.channel_id = channel_id /\ m.id > last_tg_message_id})

\* ------------------------------------------------------------ discord_handler
\* what the destination does to the sends of one route: no error, or the
\* exception `error` on the send of part `part`; "NoChannel" is get_channel
\* returning None
Outcomes ==
    {[error |-> NoError, part |-> 1], [error |-> "NoChannel", part |-> 1]}
    \cup {[error |-> e, part |-> p] : e \in DiscordErrors, p \in 1..MaxParts}

\* the Discord messages that the sends of parts 1..n create
SentMessages(n, first_id, f, message, reference) ==
    [i \in 1..n |-> [id |-> first_id + i - 1,
                     reference |-> reference,
                     channel_id |-> f.discord_channel_id,
                     forwarder_name |-> f.forwarder_name,
                     tg_id |-> message.id,
                     part |-> i,
                     edited |-> FALSE]]

\* number of the part whose send raises, 0 when every send succeeds
FailingPart(message, out) ==
    IF out.error \in DiscordErrors /\ out.part <= message.parts
    THEN out.part ELSE 0

\* forward_to_discord: sends the parts in order; an exception of a send
\* leaves the function, the parts sent before it stay in the channel
forward_to_discord(f, message, out, first_id, reference) ==
    LET bad == FailingPart(message, out)
        sent == SentMessages(IF bad = 0 THEN message.parts ELSE bad - 1,
                             first_id, f, message, reference)
    IN [created |-> sent,
        returned |-> IF bad = 0 THEN sent ELSE <<>>,
        failure |-> IF bad = 0 THEN NoError ELSE out.error,
        raised |-> IF bad = 0 THEN NoError ELSE out.error]

\* number of parameters of fetch_discord_reference(event, discord_channel)
FetchReferenceParams == 2

\* fetch_discord_reference called with the arguments `args`: a call with
\* another number of arguments raises TypeError; the body looks the replied-to
\* id up and searches the channel for the mapped message (lines 58-83)
fetch_discord_reference(args, md, dm) ==
    IF Len(args) # FetchReferenceParams
    THEN [raised |-> "TypeError", reference |-> None]
    ELSE LET event == args[1]
             discord_channel == args[2]
             ids == {r.discord_id : r \in
                        {x \in BagToSet(md) :
                            x.telegram_id = event.reply_to_msg_id}}
             found == {d \in dm : d.id \in ids
                                  /\ d.channel_id = discord_channel}
         IN [raised |-> NoError,
             reference |-> IF found = {} THEN None
                           ELSE (CHOOSE d \in found : TRUE).id]

\* handle_message_media (contract of the Delivery Coordinator): on a failure
\* the remaining parts are abandoned and a failure value is returned
handle_message_media(f, message, out, first_id, reference) ==
    LET bad == FailingPart(message, out)
        sent == SentMessages(IF bad = 0 THEN message.parts ELSE bad - 1,
                             first_id, f, message, reference)
    IN [created |-> sent,
        returned |-> IF bad = 0 THEN sent ELSE <<>>,
        failure |-> IF bad = 0 THEN NoError ELSE out.error,
        raised |-> NoError]

\* ------------------------------------------------- Bridge._handle_new_message
\* the allow-list tags that the hashtags of the message match (l. 252-256)
matching_forward_hashtags(f, tags) ==
    IF tags # {} /\ f.forward_hashtags # {}
    THEN {tag \in f.forward_hashtags : Lower(tag.name) \in tags}
    ELSE {}

\* the deny-list tags that the hashtags of the message match (l. 267-268)
matching_excluded_hashtags(f, tags) ==
    {tag \in f.excluded_hashtags : Lower(tag.name) \in tags}

\* whether lines 239-261 read the hashtags of the message
ReadsAllowList(f) == ~f.forward_everything \/ f.mention_override # {}

\* a decision that lets the allow-list have the last word
should_forward_allow_last(f, tags) ==
    IF ReadsAllowList(f) /\ matching_forward_hashtags(f, tags) # {}
    THEN TRUE
    ELSE IF f.excluded_hashtags # {} /\ matching_excluded_hashtags(f, tags) # {}
    THEN FALSE
    ELSE f.forward_everything

\* a decision whose default is to forward
should_forward_by_default(f, tags) ==
    IF f.excluded_hashtags # {} /\ matching_excluded_hashtags(f, tags) # {}
    THEN FALSE ELSE TRUE

\* should_forward_message at line 273
should_forward_message(f, tags) ==
    LET allowed == IF ReadsAllowList(f) /\ matching_forward_hashtags(f, tags) # {}
                   THEN TRUE ELSE f.forward_everything
    IN IF f.excluded_hashtags # {} /\ matching_excluded_hashtags(f, tags) # {}
       THEN FALSE ELSE allowed

\* mention_everyone at line 285
mention_everyone(f, tags) ==
    IF ReadsAllowList(f) /\ matching_forward_hashtags(f, tags) # {}
    THEN \E tag \in matching_forward_hashtags(f, tags) :
             tag.override_mention_everyone
    ELSE f.mention_everyone

\* the state one handler invocation works on
HandlerState(md, cur, mm, dm, next) ==
    [mapping_data |-> md, cursor |-> cur, missed_messages |-> mm,
     discord_messages |-> dm, next_discord_id |-> next,
     bound |-> FALSE, visited |-> <<>>, failed |-> {}, errors |-> {},
     returned |-> FALSE, raised |-> NoError]

\* history.save_mapping_data: record, then advance the cursor
save_mapping_data(st, name, tg_id, discord_id) ==
    [st EXCEPT !.mapping_data = record(@, name, tg_id, discord_id),
               !.cursor = advance_cursor(@, name, tg_id)]

Range(seq) == {seq[i] : i \in DOMAIN seq}

\* lines 276-318: deliver the message on route f and persist the result
Deliver(st, f, message, out) ==
    IF out.error = "NoChannel"
    THEN \* discord_channel is None: discord_channel.guild raises
         [st EXCEPT !.raised = "AttributeError",
                    !.failed = @ \cup {f.forwarder_name},
                    !.errors = @ \cup {"NoChannel"}]
    ELSE IF ~st.bound
    THEN \* message_forward_hashtags was never assigned (l. 279)
         [st EXCEPT !.raised = "UnboundLocalError"]
    ELSE LET \* lines 287-289: the call passes three arguments
             ref == IF message.reply_to_msg_id # None
                    THEN fetch_discord_reference(
                             <<message, f.forwarder_name, f.discord_channel_id>>,
                             st.mapping_data, st.discord_messages)
                    ELSE [raised |-> NoError, reference |-> None]
             res == IF ref.raised # NoError
                    THEN [created |-> <<>>, returned |-> <<>>,
                          failure |-> NoError, raised |-> ref.raised]
                    ELSE IF message.media
                    THEN handle_message_media(f, message, out,
                             st.next_discord_id, ref.reference)
                    ELSE forward_to_discord(f, message, out,
                             st.next_discord_id, ref.reference)
             st2 == [st EXCEPT
                        !.discord_messages = @ \cup Range(res.created),
                        !.next_discord_id = @ + Len(res.created),
                        !.failed = IF res.failure = NoError THEN @
                                   ELSE @ \cup {f.forwarder_name},
                        !.errors = IF res.failure = NoError THEN @
                                   ELSE @ \cup {res.failure}]
         IN IF res.raised # NoError
            THEN [st2 EXCEPT !.raised = res.raised]
            ELSE IF res.returned # <<>>
            THEN save_mapping_data(st2, f.forwarder_name, message.id,
                                   res.returned[1].id)
            ELSE [st2 EXCEPT !.missed_messages =
                     save_missed_message(@, f.forwarder_name, message.id,
                                         f.discord_channel_id)]

\* lines 232-318: the body of the loop for one matching forwarder
ForwardOne(st, f, message, out) ==
    LET tags == get_message_forward_hashtags(message)
        st1 == [st EXCEPT
                   !.visited = Append(@, <<f.forwarder_name, message.id>>),
                   !.bound = @ \/ ReadsAllowList(f) \/ f.excluded_hashtags # {}]
    IN IF ~should_forward_message(f, tags) THEN st1
       ELSE Deliver(st1, f, message, out)

\* the loop of line 232; an exception ends it
RECURSIVE ForEachForwarder(_, _, _, _)
ForEachForwarder(forwarders, st, message, outs) ==
    IF forwarders = <<>> \/ st.raised # NoError THEN st
    ELSE ForEachForwarder(
             Tail(forwarders),
             ForwardOne(st, Head(forwarders), message,
                        outs[Head(forwarders).forwarder_name]),
             message, outs)

\* Bridge.get_matching_forwarders
get_matching_forwarders(forwarders, tg_channel_id) ==
    SelectSeq(forwarders, LAMBDA f : tg_channel_id = f.tg_channel_id)

\* Bridge._handle_new_message on the current store
handle_new_message(st, forwarders, message, outs) ==
    ForEachForwarder(get_matching_forwarders(forwarders, message.channel_id),
                     st, message, outs)

\* ------------------------------------------------ Bridge._handle_edit_message
\* whether the destination still holds the Discord message
DiscordMessageExists(dm, channel_id, discord_id) ==
    \E d \in dm : d.id = discord_id /\ d.channel_id = channel_id

\* an edit handler that forgets the mapping of a message the destination
\* does not find
EditOne_forgets(st, f, tg_id, out) ==
    LET discord_message_id ==
            get_discord_message_id(st.mapping_data, f.forwarder_name, tg_id)
        st1 == [st EXCEPT !.visited = Append(@, <<f.forwarder_name, tg_id>>)]
    IN IF discord_message_id = None THEN st1
       ELSE IF out.error = "NoChannel"
       THEN [st1 EXCEPT !.failed = @ \cup {f.forwarder_name},
                        !.errors = @ \cup {"NoChannel"}]
       ELSE IF out.error \in DiscordErrors
       THEN [st1 EXCEPT !.failed = @ \cup {f.forwarder_name},
                        !.errors = @ \cup {out.error}, !.returned = TRUE,
                        !.mapping_data =
                            IF out.error = "NotFound"
                            THEN [r \in DOMAIN @
                                       \ MappingsOf(@, f.forwarder_name, tg_id)
                                  |-> @[r]]
                            ELSE @]
       ELSE [st1 EXCEPT !.discord_messages =
                {IF d.id = discord_message_id THEN [d EXCEPT !.edited = TRUE]
                 ELSE d : d \in @}]

\* lines 116-155: the body of the loop for one matching forwarder
EditOne(st, f, tg_id, out) ==
    LET discord_message_id ==
            get_discord_message_id(st.mapping_data, f.forwarder_name, tg_id)
        st1 == [st EXCEPT !.visited = Append(@, <<f.forwarder_name, tg_id>>)]
        error == IF ~DiscordMessageExists(st.discord_messages,
                                          f.discord_channel_id, discord_message_id)
                 THEN "NotFound" ELSE out.error
    IN IF discord_message_id = None THEN st1
       ELSE IF out.error = "NoChannel"
       THEN [st1 EXCEPT !.failed = @ \cup {f.forwarder_name},
                        !.errors = @ \cup {"NoChannel"}]
       ELSE IF error \in DiscordErrors
       THEN \* the except clauses of lines 147-155 return
            [st1 EXCEPT !.failed = @ \cup {f.forwarder_name},
                        !.errors = @ \cup {error}, !.returned = TRUE]
       ELSE [st1 EXCEPT !.discord_messages =
                {IF d.id = discord_message_id THEN [d EXCEPT !.edited = TRUE]
                 ELSE d : d \in @}]

\* the loop of line 116
RECURSIVE EditEach(_, _, _, _)
EditEach(forwarders, st, tg_id, outs) ==
    IF forwarders = <<>> \/ st.returned THEN st
    ELSE EditEach(Tail(forwarders),
                  EditOne(st, Head(forwarders), tg_id,
                          outs[Head(forwarders).forwarder_name]),
                  tg_id, outs)

\* --------------------------------------------- Bridge._handle_deleted_message
\* lines 177-213: one deleted id under one matching forwarder
DeleteOne(st, f, deleted_id, out) ==
    LET discord_message_id ==
            get_discord_message_id(st.mapping_data, f.forwarder_name, deleted_id)
        st1 == [st EXCEPT !.visited = Append(@, <<f.forwarder_name, deleted_id>>)]
        missing == ~DiscordMessageExists(st.discord_messages,
                                         f.discord_channel_id, discord_message_id)
        failed == [st1 EXCEPT !.failed = @ \cup {f.forwarder_name},
                              !.errors = @ \cup {IF missing THEN "NotFound"
                                                 ELSE out.error}]
    IN IF discord_message_id = None THEN st1
       ELSE IF out.error = "NoChannel" THEN [failed EXCEPT !.returned = TRUE]
       ELSE IF missing \/ (out.error = "NotFound" /\ out.part = 1)
       THEN \* fetch_message raises NotFound (l. 197)
            [failed EXCEPT !.returned = TRUE]
       ELSE IF out.error \in DiscordErrors /\ out.part = 1
       THEN \* fetch_message raises another exception: nothing catches it
            [failed EXCEPT !.raised = out.error]
       ELSE IF out.error \in DiscordErrors
       THEN \* discord_message.delete() raises (l. 205-213)
            [failed EXCEPT !.returned = TRUE]
       ELSE [st1 EXCEPT !.discord_messages =
                {d \in @ : d.id # discord_message_id}]

\* the (forwarder, deleted id) pairs in the order of the loops of l. 174-177
RECURSIVE DeleteUnits(_, _)
DeleteUnits(forwarders, deleted_ids) ==
    IF forwarders = <<>> THEN <<>>
    ELSE [i \in DOMAIN deleted_ids |-> <<Head(forwarders), deleted_ids[i]>>]
         \o DeleteUnits(Tail(forwarders), deleted_ids)

RECURSIVE DeleteEach(_, _, _)
DeleteEach(units, st, outs) ==
    IF units = <<>> \/ st.returned \/ st.raised # NoError THEN st
    ELSE DeleteEach(Tail(units),
                    DeleteOne(st, Head(units)[1], Head(units)[2],
                              outs[Head(units)[1].forwarder_name]),
                    outs)

\* ------------------------------------------------------------------ state
NoCall ==
    [handler |-> "none", todo |-> <<>>, visited |-> <<>>,
     failed |-> {}, errors |-> {}, raised |-> NoError]

\* a tick that has replayed nothing yet: the id last passed to the handler for
\* the forwarder being replayed, and whether Discord was seen unhealthy
NoTick == [last_replayed |-> None, unhealthy |-> FALSE]

\* the (forwarder, id) pairs that the loop fetched, that the forwarder is to
\* forward and that have no mapping yet; `skipped` are those of them that
\* the loop skipped because Discord was unhealthy
NoBacklog == [fetched |-> {}, skipped |-> {}]

\* a resolution that knows the channels by their id only
dialog_matches_id_only(forwarder, dialog) ==
    forwarder.tg_channel_id = dialog.id

\* line 73: the forwarder names the dialog by its display name or by its id
dialog_matches(forwarder, dialog) ==
    forwarder.tg_channel_id \in {dialog.name, dialog.id}

\* lines 63-78: the entities appended while the dialogs are iterated, one per
\* dialog that is a channel and per forwarder that names it
RECURSIVE register_dialogs(_, _)
register_dialogs(dialogs, forwarders) ==
    IF dialogs = <<>> THEN <<>>
    ELSE LET dialog == Head(dialogs)
             matching == SelectSeq(forwarders,
                                   LAMBDA f : dialog_matches(f, dialog))
         IN (IF dialog.is_channel
             THEN [i \in DOMAIN matching |-> dialog.id]
             ELSE <<>>)
            \o register_dialogs(Tail(dialogs), forwarders)

\* no handler is registered
NoHandlers == [h \in {} |-> {}]

\* lines 91-93: the three handlers, each on the chats of the entities
RegisteredHandlers(entities) ==
    [h \in {"new", "edit", "delete"} |-> {entities[i] : i \in DOMAIN entities}]

\* Bridge.start has not begun: the client may or may not be connected
NotStarted(dialogs, connected) ==
    [pc |-> "REGISTER", connected |-> connected, depth |-> 0,
     listed |-> FALSE, dialogs |-> dialogs,
     input_channels_entities |-> <<>>, handlers |-> NoHandlers]

\* Bridge.start has returned: the handlers are registered on the channel
Started(forwarders) ==
    [pc |-> "RUNNING", connected |-> TRUE, depth |-> 0,
     listed |-> TRUE, dialogs |-> <<LiveChannel>>,
     input_channels_entities |-> register_dialogs(<<LiveChannel>>, forwarders),
     handlers |-> RegisteredHandlers(
                      register_dialogs(<<LiveChannel>>, forwarders))]

\* the bridge after Bridge.__init__, with one of the configurations
BridgeInit(configs) ==
    /\ telegram_forwarders \in configs
    /\ tg_messages = {}
    /\ live_events = {}
    /\ internet_connected = TRUE
    /\ telegram_is_healthy = TRUE
    /\ discord_is_healthy = TRUE
    /\ mapping_data = EmptyBag
    /\ cursor = [n \in ForwarderNames |-> 0]
    /\ missed_messages = {}
    /\ discord_messages = {}
    /\ next_discord_id = 1
    /\ rec_state = "WAITING"
    /\ last_messages = <<>>
    /\ rec_forwarder = ""
    /\ fetched_messages = <<>>
    /\ tick = NoTick
    /\ backlog = NoBacklog
    /\ last_call = NoCall

\* the bridge once Bridge.start has returned
InitWith(configs) ==
    /\ BridgeInit(configs)
    /\ startup = Started(telegram_forwarders)

\* the names of the configured routes
ConfiguredNames ==
    {telegram_forwarders[i].forwarder_name : i \in DOMAIN telegram_forwarders}

storeVars == <<mapping_data, cursor, missed_messages>>
healthVars == <<internet_connected, telegram_is_healthy, discord_is_healthy>>
recVars == <<rec_state, last_messages, rec_forwarder, fetched_messages, tick,
             backlog>>

\* the (forwarder, id) pairs a new or edited message is to be processed for
UnitsOf(forwarders, tg_id) ==
    [i \in DOMAIN forwarders |-> <<forwarders[i].forwarder_name, tg_id>>]

\* what a handler invocation did: the (forwarder, id) pairs it had to process,
\* those whose processing it started, the forwarders whose destination
\* failed, the errors the destination reported, and the exception that left
\* the handler
CallOf(handler, todo, st) ==
    [handler |-> handler, todo |-> todo, visited |-> st.visited,
     failed |-> st.failed, errors |-> st.errors, raised |-> st.raised]

CurrentState ==
    HandlerState(mapping_data, cursor, missed_messages, discord_messages,
                 next_discord_id)

\* ------------------------------------------------------------- environment
\* a message is posted in the source channel; Telethon raises a NewMessage
\* event for it when the client is connected
TelegramPost(shapes) ==
    /\ startup.pc = "RUNNING"
    /\ TgChannel \in startup.handlers["new"]
    /\ Cardinality(tg_messages) < MaxMsgId
    /\ \E shape \in shapes :
          tg_messages' = tg_messages \cup
              {[id |-> Cardinality(tg_messages) + 1, channel_id |-> TgChannel,
                hashtags |-> shape.hashtags, media |-> shape.media,
                parts |-> shape.parts, deleted |-> FALSE,
                reply_to_msg_id |-> IF shape.reply
                                    THEN Cardinality(tg_messages)
                                    ELSE None]}
    /\ live_events' = IF internet_connected /\ telegram_is_healthy
                      THEN live_events \cup {Cardinality(tg_messages) + 1}
                      ELSE live_events
    /\ UNCHANGED <<startup, telegram_forwarders, healthVars, storeVars, discord_messages,
                   next_discord_id, recVars>>
    /\ last_call' = NoCall

\* the health checks flip one of the three flags
HealthChange ==
    /\ \/ internet_connected' = ~internet_connected
          /\ UNCHANGED <<telegram_is_healthy, discord_is_healthy>>
       \/ telegram_is_healthy' = ~telegram_is_healthy
          /\ UNCHANGED <<internet_connected, discord_is_healthy>>
       \/ discord_is_healthy' = ~discord_is_healthy
          /\ UNCHANGED <<internet_connected, telegram_is_healthy>>
    /\ UNCHANGED <<startup, telegram_forwarders, tg_messages, live_events, storeVars,
                   discord_messages, next_discord_id, recVars>>
    /\ last_call' = NoCall

\* ---------------------------------------------------------------- handlers
\* the assignments a run of _handle_new_message leaves behind
NewMessageEffect(st) ==
    /\ st.next_discord_id <= MaxDiscord + 1
    /\ mapping_data' = st.mapping_data
    /\ cursor' = st.cursor
    /\ missed_messages' = st.missed_messages
    /\ discord_messages' = st.discord_messages
    /\ next_discord_id' = st.next_discord_id
    /\ backlog' = [fetched |-> {p \in backlog.fetched :
                                   MappingsOf(st.mapping_data, p[1], p[2]) = {}},
                   skipped |-> {p \in backlog.skipped :
                                   MappingsOf(st.mapping_data, p[1], p[2]) = {}}]

\* the forwarder of the configuration with this name
ForwarderNamed(name) ==
    telegram_forwarders[CHOOSE i \in DOMAIN telegram_forwarders :
                            telegram_forwarders[i].forwarder_name = name]

\* what the destination can do to the sends of a new message: one outcome
\* per route that forwards it, on a part the message has
NewMessageOutcomes(message) ==
    {outs \in [ConfiguredNames -> Outcomes] :
        \A n \in ConfiguredNames :
            IF should_forward_message(ForwarderNamed(n),
                                      get_message_forward_hashtags(message))
            THEN outs[n].part <= message.parts
            ELSE outs[n].error = NoError}

\* what the destination can do to an edit or a delete: one outcome per route
\* that has a mapping for one of the ids; a delete tells an exception of
\* fetch_message (part 1) from one of delete() (part 2)
MutationOutcomes(ids, stages) ==
    {outs \in [ConfiguredNames -> Outcomes] :
        \A n \in ConfiguredNames :
            IF \E id \in ids : get_discord_message_id(mapping_data, n, id) # None
            THEN outs[n].part <= stages
            ELSE outs[n].error = NoError}

\* Telethon dispatches a NewMessage event to _handle_new_message
LiveNewMessage(observed) ==
    \E id \in live_events :
      \E outs \in NewMessageOutcomes(CHOOSE m \in tg_messages : m.id = id) :
        LET message == CHOOSE m \in tg_messages : m.id = id
            st == handle_new_message(CurrentState, telegram_forwarders,
                                     message, outs)
        IN /\ NewMessageEffect(st)
           /\ live_events' = live_events \ {id}
           /\ last_call' =
                  IF observed
                  THEN CallOf("new",
                           UnitsOf(get_matching_forwarders(telegram_forwarders,
                                       message.channel_id), id), st)
                  ELSE NoCall
           /\ UNCHANGED <<startup, telegram_forwarders, tg_messages, healthVars,
                          rec_state, last_messages, rec_forwarder,
                          fetched_messages, tick>>

\* a message of the source channel is edited: _handle_edit_message
EditMessage ==
    \E message \in tg_messages :
      \E outs \in MutationOutcomes({message.id}, 1) :
        LET matching == get_matching_forwarders(telegram_forwarders,
                                                message.channel_id)
            st == EditEach(matching, CurrentState, message.id, outs)
        IN /\ ~message.deleted
           /\ discord_messages' = st.discord_messages
           /\ mapping_data' = st.mapping_data
           /\ last_call' = CallOf("edit", UnitsOf(matching, message.id), st)
           /\ UNCHANGED <<startup, telegram_forwarders, tg_messages, live_events,
                          healthVars, cursor, missed_messages,
                          next_discord_id, recVars>>

\* messages of the source channel are deleted: _handle_deleted_message
DeleteMessages ==
    \E ids \in SUBSET {m.id : m \in {x \in tg_messages : ~x.deleted}} :
      \E outs \in MutationOutcomes(ids, 2) :
        LET deleted_ids == SortedById({m \in tg_messages : m.id \in ids})
            units == DeleteUnits(
                         get_matching_forwarders(telegram_forwarders, TgChannel),
                         [i \in DOMAIN deleted_ids |-> deleted_ids[i].id])
            st == DeleteEach(units, CurrentState, outs)
        IN /\ ids # {}
           /\ tg_messages' = {IF m.id \in ids THEN [m EXCEPT !.deleted = TRUE]
                              ELSE m : m \in tg_messages}
           /\ discord_messages' = st.discord_messages
           /\ last_call' = CallOf("delete",
                  [i \in DOMAIN units |-> <<units[i][1].forwarder_name, units[i][2]>>],
                  st)
           /\ mapping_data' = st.mapping_data
           /\ UNCHANGED <<startup, telegram_forwarders, live_events, healthVars,
                          cursor, missed_messages, next_discord_id, recVars>>

\* ------------------------------------------- Bridge.on_restored_connectivity
\* config.get_telegram_channel_by_forwarder_name
get_telegram_channel_by_forwarder_name(forwarders, name) ==
    IF \E i \in DOMAIN forwarders : forwarders[i].forwarder_name = name
    THEN forwarders[CHOOSE i \in DOMAIN forwarders :
                        forwarders[i].forwarder_name = name].tg_channel_id
    ELSE None

\* the sleep of line 376 ends: the loop checks the flags again
RecoveryTick ==
    /\ rec_state = "WAITING"
    /\ rec_state' = "CHECKING"
    /\ last_call' = NoCall
    /\ UNCHANGED <<startup, telegram_forwarders, tg_messages, live_events, healthVars,
                   storeVars, discord_messages, next_discord_id, last_messages,
                   rec_forwarder, fetched_messages, tick, backlog>>

\* what the loop records when the condition of line 331 was false
SkippedCall == [NoCall EXCEPT !.handler = "recovery_skipped"]

\* a check that lets the tick run whatever the flags are
RecoveryCheck_ungated ==
    /\ rec_state = "CHECKING"
    /\ rec_state' = "REPLAYING"
    /\ last_messages' =
           get_last_messages_for_all_forwarders(cursor, telegram_forwarders)
    /\ last_call' = NoCall
    /\ UNCHANGED <<startup, telegram_forwarders, tg_messages, live_events,
                   healthVars, storeVars, discord_messages, next_discord_id,
                   rec_forwarder, fetched_messages, tick, backlog>>

\* line 331, and line 335 when both flags are true
RecoveryCheck ==
    /\ rec_state = "CHECKING"
    /\ IF internet_connected /\ telegram_is_healthy
       THEN /\ rec_state' = "REPLAYING"
            /\ last_messages' =
                   get_last_messages_for_all_forwarders(cursor, telegram_forwarders)
            /\ last_call' = NoCall
       ELSE /\ rec_state' = "WAITING"
            /\ last_call' = SkippedCall
            /\ UNCHANGED last_messages
    /\ UNCHANGED <<startup, telegram_forwarders, tg_messages, live_events, healthVars,
                   storeVars, discord_messages, next_discord_id, rec_forwarder,
                   fetched_messages, tick, backlog>>

\* the tick is over: the except clause of line 370, or the end of the loops
EndTick ==
    /\ rec_state' = "WAITING"
    /\ last_messages' = <<>>
    /\ fetched_messages' = <<>>
    /\ rec_forwarder' = ""
    /\ tick' = NoTick

\* what the loop records when its except clause caught an exception
CaughtCall == [NoCall EXCEPT !.handler = "recovery", !.raised = "Exception"]

\* an exception that leaves the loop instead of being caught
ExceptionEscapes ==
    /\ rec_state' = "DEAD"
    /\ last_messages' = <<>>
    /\ fetched_messages' = <<>>
    /\ rec_forwarder' = ""
    /\ tick' = NoTick
    /\ last_call' = CaughtCall

\* lines 370-372: the except clause catches the exception and logs it; the
\* loop goes on to the sleep of line 376
CaughtException ==
    /\ EndTick
    /\ last_call' = CaughtCall

\* the pairs of the backlog that still have no mapping
Pruned(bl, md) ==
    [fetched |-> {p \in bl.fetched : MappingsOf(md, p[1], p[2]) = {}},
     skipped |-> {p \in bl.skipped : MappingsOf(md, p[1], p[2]) = {}}]

\* the fetched messages that the forwarder is to forward, as backlog pairs
ToForward(forwarder_name, fetched) ==
    {<<forwarder_name, fetched[i].id>> : i \in
        {k \in DOMAIN fetched :
            should_forward_message(ForwarderNamed(forwarder_name),
                                   get_message_forward_hashtags(fetched[k]))}}

\* lines 339-349: the next forwarder of last_messages and its fetch
RecoveryFetch ==
    /\ rec_state = "REPLAYING"
    /\ fetched_messages = <<>>
    /\ last_messages # <<>>
    /\ LET forwarder_name == Head(last_messages).forwarder_name
           last_tg_message_id == Head(last_messages).telegram_id
           channel_id == get_telegram_channel_by_forwarder_name(
                             telegram_forwarders, forwarder_name)
       IN \/ /\ channel_id # None
             /\ \E fetched \in fetch_messages_after(
                                   last_tg_message_id, channel_id,
                                   {m \in tg_messages : ~m.deleted}) :
                   /\ fetched_messages' = fetched
                   /\ backlog' = Pruned(
                          [backlog EXCEPT !.fetched =
                               @ \cup ToForward(forwarder_name, fetched)],
                          mapping_data)
             /\ rec_forwarder' = forwarder_name
             /\ last_messages' = Tail(last_messages)
             /\ tick' = [tick EXCEPT !.last_replayed = None]
             /\ UNCHANGED rec_state
             /\ last_call' = NoCall
          \/ \* the fetch raises
             /\ CaughtException
             /\ UNCHANGED backlog
    /\ UNCHANGED <<startup, telegram_forwarders, tg_messages, live_events, healthVars,
                   storeVars, discord_messages, next_discord_id>>

\* the order in which the loop of line 350 takes the fetched messages
ReplayOrder(fetched) == fetched

\* lines 350-368: the next fetched message
RecoveryReplay ==
    /\ rec_state = "REPLAYING"
    /\ fetched_messages # <<>>
    /\ LET message == Head(ReplayOrder(fetched_messages))
       IN IF discord_is_healthy = FALSE
          THEN \* line 359: the message is skipped
               /\ tick' = [tick EXCEPT !.unhealthy = TRUE]
               /\ backlog' = [backlog EXCEPT !.skipped =
                      @ \cup (backlog.fetched \cap {<<rec_forwarder, message.id>>})]
               /\ fetched_messages' = Tail(ReplayOrder(fetched_messages))
               /\ last_call' = NoCall
               /\ UNCHANGED <<storeVars, discord_messages, next_discord_id,
                              rec_state, last_messages, rec_forwarder>>
          ELSE \E outs \in NewMessageOutcomes(message) :
                 LET st == handle_new_message(CurrentState, telegram_forwarders,
                                              message, outs)
                 IN /\ NewMessageEffect(st)
                    /\ IF st.raised # NoError
                       THEN CaughtException
                       ELSE /\ last_call' = NoCall
                            /\ fetched_messages' = Tail(ReplayOrder(fetched_messages))
                            /\ tick' = [tick EXCEPT !.last_replayed = message.id]
                            /\ UNCHANGED <<rec_state, last_messages, rec_forwarder>>
    /\ UNCHANGED <<startup, telegram_forwarders, tg_messages, live_events, healthVars>>

\* the loops of lines 339 and 350 are over: line 376
RecoveryEnd ==
    /\ rec_state = "REPLAYING"
    /\ fetched_messages = <<>>
    /\ last_messages = <<>>
    /\ EndTick
    /\ last_call' = NoCall
    /\ UNCHANGED <<startup, telegram_forwarders, tg_messages, live_events, healthVars,
                   storeVars, discord_messages, next_discord_id, backlog>>

\* the whole bridge, on text messages of one part
Init == InitWith(ReplayConfigs)

Next ==
    \/ TelegramPost(ReplayShapes)
    \/ HealthChange
    \/ LiveNewMessage(FALSE)
    \/ RecoveryTick
    \/ RecoveryCheck
    \/ RecoveryFetch
    \/ RecoveryReplay
    \/ RecoveryEnd

Spec == Init /\ [][Next]_vars

\* the messages posted while the progress of the loop is explored
FairShapes ==
    {[hashtags |-> {"NEWS"}, media |-> FALSE, parts |-> 1, reply |-> FALSE]}

\* the messages that the routes of FairConfigs can owe
FairPairs ==
    {<<c[i].forwarder_name, id>> :
        c \in FairConfigs, i \in {1}, id \in 1..MaxMsgId}

\* a fetch that returns
FetchSucceeds == RecoveryFetch /\ rec_state' = "REPLAYING"

\* a replay after which the message is no longer owed on the route
ReplayDelivers ==
    /\ RecoveryReplay
    /\ discord_is_healthy
    /\ <<rec_forwarder, Head(fetched_messages).id>> \notin backlog'.fetched

\* the bridge with one route, under the scheduling of asyncio: every sleep
\* ends and every awaited call returns; a fetch and a send that are retried
\* for ever succeed in the end
FairInit == InitWith(FairConfigs)

FairNext ==
    \/ TelegramPost(FairShapes)
    \/ HealthChange
    \/ LiveNewMessage(FALSE)
    \/ RecoveryTick
    \/ RecoveryCheck
    \/ RecoveryFetch
    \/ RecoveryReplay
    \/ RecoveryEnd

FairSpec ==
    /\ FairInit /\ [][FairNext]_vars
    /\ WF_vars(RecoveryTick)
    /\ WF_vars(RecoveryCheck)
    /\ WF_vars(RecoveryFetch)
    /\ WF_vars(RecoveryReplay)
    /\ WF_vars(RecoveryEnd)
    /\ WF_vars(LiveNewMessage(FALSE))
    /\ SF_vars(FetchSucceeds)
    /\ SF_vars(ReplayDelivers)

\* ------------------------------------------------------------ Bridge.start
\* everything but the start of the bridge
bridgeVars ==
    <<telegram_forwarders, tg_messages, live_events, healthVars, storeVars,
      discord_messages, next_discord_id, recVars, last_call>>

\* line 55: is the Telegram client connected?
StartCheck ==
    /\ startup.pc = "REGISTER"
    /\ startup' = [startup EXCEPT
                      !.pc = IF startup.connected THEN "ITERATE" ELSE "SLEEP"]
    /\ UNCHANGED bridgeVars

\* lines 57-59: the sleep ends and _register_forwarders calls itself; the
\* nested call that exceeds the depth the interpreter allows raises
\* RecursionError, which nothing catches
StartRetry ==
    /\ startup.pc = "SLEEP"
    /\ startup' = IF startup.depth + 1 >= RecursionLimit
                  THEN [startup EXCEPT !.pc = "RAISED"]
                  ELSE [startup EXCEPT !.pc = "REGISTER", !.depth = @ + 1]
    /\ UNCHANGED bridgeVars

\* the Telegram client gets connected while the bridge starts
ClientConnects ==
    /\ startup.pc \in {"REGISTER", "SLEEP"}
    /\ ~startup.connected
    /\ startup' = [startup EXCEPT !.connected = TRUE]
    /\ UNCHANGED bridgeVars

\* lines 61-86: the dialogs are iterated; iter_dialogs may raise
StartIterate ==
    /\ startup.pc = "ITERATE"
    /\ \/ LET entities == register_dialogs(startup.dialogs, telegram_forwarders)
          IN startup' =
                 IF Len(entities) <= 0
                 THEN \* lines 80-82: sys.exit(1)
                      [startup EXCEPT !.pc = "EXITED", !.listed = TRUE]
                 ELSE [startup EXCEPT !.pc = "RESOLVED", !.listed = TRUE,
                                      !.input_channels_entities = entities]
       \/ \* lines 84-86: sys.exit(1)
          startup' = [startup EXCEPT !.pc = "EXITED"]
    /\ UNCHANGED bridgeVars

\* lines 88-93: _register_telegram_handlers
StartHandlers ==
    /\ startup.pc = "RESOLVED"
    /\ startup' = [startup EXCEPT
                      !.pc = "RUNNING",
                      !.handlers =
                          RegisteredHandlers(startup.input_channels_entities)]
    /\ UNCHANGED bridgeVars

\* the bridge from Bridge.start on, with the three handlers
StartupInit ==
    /\ BridgeInit(StartupConfigs)
    /\ \E dialogs \in DialogLists, connected \in BOOLEAN :
          startup = NotStarted(dialogs, connected)

StartupNext ==
    \/ StartCheck
    \/ StartRetry
    \/ ClientConnects
    \/ StartIterate
    \/ StartHandlers
    \/ TelegramPost(FairShapes)
    \/ LiveNewMessage(TRUE)
    \/ EditMessage
    \/ DeleteMessages

StartupSpec == StartupInit /\ [][StartupNext]_vars

\* the new-message handler on messages that reply to earlier ones
ReplyInit == InitWith(ReplyConfigs)

ReplyNext ==
    \/ TelegramPost(ReplyShapes)
    \/ LiveNewMessage(TRUE)

ReplySpec == ReplyInit /\ [][ReplyNext]_vars

\* the three handlers alone, on two routes and every shape of message
HandlerInit == InitWith(HandlerConfigs)

HandlerNext ==
    \/ TelegramPost(HandlerShapes)
    \/ LiveNewMessage(TRUE)
    \/ EditMessage
    \/ DeleteMessages

HandlerSpec == HandlerInit /\ [][HandlerNext]_vars

\* the new-message handler alone, on one route with any policy
RouterInit == InitWith(RouterConfigs)

RouterNext ==
    \/ TelegramPost(MessageShapes)
    \/ LiveNewMessage(TRUE)

RouterSpec == RouterInit /\ [][RouterNext]_vars

\* ------------------------------------------------------------------ claims
\* the routes of the configuration
Routes == {telegram_forwarders[i] : i \in DOMAIN telegram_forwarders}

\* a hashtag of the message is a tag of the deny-list, whatever the case
DenyTagMatches(f, message) ==
    \E tag \in f.excluded_hashtags, h \in message.hashtags :
        Lower(tag.name) = Lower(h)

\* a hashtag of the message is a tag of the allow-list, whatever the case
AllowTagMatches(f, message) ==
    \E tag \in f.forward_hashtags, h \in message.hashtags :
        Lower(tag.name) = Lower(h)

\* the Discord messages that route `name` sent for Telegram message `id`
SentFor(name, id) ==
    {d \in discord_messages : d.forwarder_name = name /\ d.tg_id = id}

\* C1: a message with a hashtag on the deny-list of a route is never sent on
\* that route and gets no mapping under it, whatever forward_everything is
\* and whichever allow-list tags match.
C1_DenyOverridesAllow ==
    \A f \in Routes, m \in tg_messages :
        (m.channel_id = f.tg_channel_id /\ DenyTagMatches(f, m))
        => /\ SentFor(f.forwarder_name, m.id) = {}
           /\ MappingsOf(mapping_data, f.forwarder_name, m.id) = {}

\* the handler has just processed, for a route that forwards everything, a
\* message that matches both the allow-list and the deny-list of the route
C1_Witness ==
    \E f \in Routes, m \in tg_messages :
        /\ f.forward_everything
        /\ AllowTagMatches(f, m)
        /\ DenyTagMatches(f, m)
        /\ last_call.handler = "new"
        /\ last_call.visited = <<<<f.forwarder_name, m.id>>>>

\* C2: within one tick, the messages fetched for one route are passed to
\* _handle_new_message in strictly ascending order of id.
C2_RecoveryAscending ==
    [][(tick.last_replayed # None /\ tick'.last_replayed # None
        /\ tick'.last_replayed # tick.last_replayed)
       => tick'.last_replayed > tick.last_replayed]_vars

\* C3: between two ticks, the cursor of a route is not greater than the id of
\* any message that the loop fetched for the route, that the route forwards
\* and that has no mapping yet.
C3_NeverSkipsAhead ==
    rec_state \in {"WAITING", "CHECKING"}
    => \A p \in backlog.fetched : cursor[p[1]] <= p[2]

\* C4: once the loop has seen Discord unhealthy in a tick, it passes no
\* further message to _handle_new_message in that tick.
C4_NoDeliveryAfterUnhealthy ==
    [][tick.unhealthy
       => ~(tick'.last_replayed # None
            /\ tick'.last_replayed # tick.last_replayed)]_vars

\* C5: if the three health flags eventually stay true, every message that
\* the loop skipped because Discord was unhealthy, and that its route
\* forwards, gets its mapping in the end (as long as the bound on the number
\* of Discord messages leaves room for a send).
C5_BacklogDelivered ==
    (/\ <>[](internet_connected /\ telegram_is_healthy /\ discord_is_healthy)
     /\ [](next_discord_id <= MaxDiscord))
    => \A p \in FairPairs :
          [](p \in backlog.skipped
             => <>(MappingsOf(mapping_data, p[1], p[2]) # {}))

\* C6: the cursor of a route never decreases, and it is the highest id
\* mapped under the route.
C6_CursorMonotone ==
    /\ [][\A n \in ForwarderNames : cursor'[n] >= cursor[n]]_vars
    /\ [](\A n \in ForwarderNames :
            /\ \A r \in BagToSet(mapping_data) :
                   r.forwarder_name = n => r.telegram_id <= cursor[n]
            /\ cursor[n] # 0
               => \E r \in BagToSet(mapping_data) :
                      r.forwarder_name = n /\ r.telegram_id = cursor[n])

\* message 1 was mapped under a route after message 2 had been
C6_Witness ==
    \E n \in ForwarderNames :
        /\ cursor[n] = 2
        /\ get_discord_message_id(mapping_data, n, 1)
               > get_discord_message_id(mapping_data, n, 2)
        /\ get_discord_message_id(mapping_data, n, 2) # None

\* C7: there is at most one mapping per (forwarder, telegram id), and
\* recording a key twice with the same Discord id leaves one mapping, that
\* lookup returns after both calls.
C7_OneMappingPerKey ==
    \A n \in ForwarderNames, id \in 1..MaxMsgId :
        /\ MappingCount(mapping_data, n, id) <= 1
        /\ \A d \in 1..MaxDiscord :
              LET once == record(mapping_data, n, id, d)
                  twice == record(once, n, id, d)
              IN /\ MappingCount(twice, n, id) = 1
                 /\ get_discord_message_id(once, n, id) = d
                 /\ get_discord_message_id(twice, n, id) = d

\* the same message was delivered twice on one route, and so recorded twice
C7_Witness ==
    \E n \in ForwarderNames, id \in 1..MaxMsgId :
        /\ Cardinality({d \in SentFor(n, id) : d.part = 1}) = 2
        /\ MappingCount(mapping_data, n, id) = 1
        /\ get_discord_message_id(mapping_data, n, id) = 2

\* C8: a destination failure on one route or one message does not keep the
\* handler from processing the other routes and the other messages.
C8_FailureIsolation ==
    last_call.failed # {} => last_call.visited = last_call.todo

\* C9: a failing send of _handle_new_message raises nothing: the failure is
\* returned as a value, and no exception of a send (not-found, forbidden,
\* HTTP failure) leaves the handler.
C9_DeliveryNeverRaises ==
    (last_call.handler = "new" /\ last_call.failed # {})
    => last_call.raised \notin DiscordErrors

\* C10: when the delivery of a message fails on a route, a missed-forward
\* record with the route, the message and the Discord channel is written,
\* and no mapping (the failures of a send; an invocation that a missing
\* Discord channel ended is left aside).
C10_MissedRecordOnFailure ==
    (last_call.handler = "new" /\ last_call.raised # "AttributeError")
    => \A n \in last_call.failed :
          /\ [forwarder_name |-> n, telegram_id |-> last_call.todo[1][2],
              discord_channel_id |-> DiscordChannelOf(n)] \in missed_messages
          /\ MappingsOf(mapping_data, n, last_call.todo[1][2]) = {}

\* C11: when the destination reports not-found to the edit handler, the
\* handler returns without raising and leaves the mapping store as it was.
C11_EditNotFoundKeepsMapping ==
    [][(last_call'.handler = "edit" /\ "NotFound" \in last_call'.errors)
       => (last_call'.raised = NoError /\ mapping_data' = mapping_data)]_vars

\* an edit of a mapped message ended on not-found
C11_Witness ==
    /\ last_call.handler = "edit"
    /\ "NotFound" \in last_call.errors
    /\ \E u \in Range(last_call.visited) :
          get_discord_message_id(mapping_data, u[1], u[2]) # None

\* C12: after the delete handler deleted the destination message of a mapped
\* (route, source id), the lookup of that key returns absent.
C12_MappingRemovedOnDelete ==
    last_call.handler = "delete"
    => \A u \in Range(last_call.visited) :
          LET d == get_discord_message_id(mapping_data, u[1], u[2])
          IN d # None
             => DiscordMessageExists(discord_messages, DiscordChannelOf(u[1]), d)

\* C13: on a route with forward_everything = false, a message none of whose
\* hashtags is on the allow-list causes no send, no mapping and no
\* missed-forward record; a message with a hashtag on the allow-list and none
\* on the deny-list is to be forwarded.
C13_NoForwardNoTrace ==
    \A f \in Routes, m \in tg_messages :
        m.channel_id = f.tg_channel_id
        => /\ (~f.forward_everything /\ ~AllowTagMatches(f, m))
              => /\ SentFor(f.forwarder_name, m.id) = {}
                 /\ MappingsOf(mapping_data, f.forwarder_name, m.id) = {}
                 /\ \A r \in missed_messages :
                        ~(r.forwarder_name = f.forwarder_name
                          /\ r.telegram_id = m.id)
           /\ (AllowTagMatches(f, m) /\ ~DenyTagMatches(f, m))
              => should_forward_message(f, get_message_forward_hashtags(m))

\* the handler has processed a tagged message that the allow-list of a route
\* without forward_everything does not name
C13_Witness ==
    \E f \in Routes, m \in tg_messages :
        /\ ~f.forward_everything
        /\ f.forward_hashtags # {}
        /\ m.hashtags # {}
        /\ ~AllowTagMatches(f, m)
        /\ last_call.handler = "new"
        /\ last_call.visited = <<<<f.forwarder_name, m.id>>>>

\* C18: on a route with forward_everything = true, a message with no hashtag
\* on the deny-list reaches a send and ends with a mapping or a
\* missed-forward record, whether or not the route has mention-override tags
\* or a deny-list (stated for the invocations in which the destination
\* reports no error).
C18_ForwardEverythingDelivers ==
    \A f \in Routes, m \in tg_messages :
        (/\ last_call.handler = "new"
         /\ last_call.visited = <<<<f.forwarder_name, m.id>>>>
         /\ last_call.errors = {}
         /\ f.forward_everything
         /\ ~DenyTagMatches(f, m))
        => /\ SentFor(f.forwarder_name, m.id) # {}
           /\ \/ MappingsOf(mapping_data, f.forwarder_name, m.id) # {}
              \/ \E r \in missed_messages :
                    r.forwarder_name = f.forwarder_name /\ r.telegram_id = m.id

\* C19: the mapping written for a delivered message holds the ids of all the
\* Discord messages the delivery created, so that a lookup returns each of
\* them.
C19_MappingHoldsEveryId ==
    last_call.handler = "new"
    => \A u \in Range(last_call.visited) :
          MappingsOf(mapping_data, u[1], u[2]) # {}
          => {d.id : d \in SentFor(u[1], u[2])}
             = {r.discord_id : r \in MappingsOf(mapping_data, u[1], u[2])}

\* C15: a reply to a message that has a mapping under the route is sent with
\* a reference to the mapped Discord message on every part; a reply to a
\* message without mapping is sent without reference; in both cases the
\* message is delivered and the handler does not raise (stated for the
\* invocations in which the destination reports no error).
C15_ReplyResolution ==
    \A f \in Routes, m \in tg_messages :
        (/\ last_call.handler = "new"
         /\ last_call.visited = <<<<f.forwarder_name, m.id>>>>
         /\ last_call.errors = {}
         /\ m.reply_to_msg_id # None
         /\ should_forward_message(f, get_message_forward_hashtags(m)))
        => /\ last_call.raised = NoError
           /\ SentFor(f.forwarder_name, m.id) # {}
           /\ \A d \in SentFor(f.forwarder_name, m.id) :
                 d.reference \in
                    {get_discord_message_id(mapping_data, f.forwarder_name,
                                            m.reply_to_msg_id), None}

\* C16: an exception of the fetch or of the replay never ends the loop: the
\* loop is in WAITING again and again and starts a tick again and again, and
\* its state only moves WAITING -> CHECKING -> (REPLAYING -> WAITING | WAITING).
C16_LoopNeverDies ==
    /\ []<>(rec_state = "WAITING")
    /\ []<>(rec_state = "CHECKING")
    /\ [][rec_state' # rec_state
          => <<rec_state, rec_state'>> \in
                {<<"WAITING", "CHECKING">>, <<"CHECKING", "REPLAYING">>,
                 <<"CHECKING", "WAITING">>, <<"REPLAYING", "WAITING">>}]_vars

\* an exception has just ended a tick and the loop is waiting for the next
C16_Witness ==
    /\ last_call = CaughtCall
    /\ rec_state = "WAITING"
    /\ \E n \in ForwarderNames : cursor[n] # 0

\* the dialogs that are channels
LiveChannels ==
    {startup.dialogs[i] : i \in
        {k \in DOMAIN startup.dialogs : startup.dialogs[k].is_channel}}

\* the route names the channel by its id or by its display name
RouteMatches(f, d) == f.tg_channel_id = d.id \/ f.tg_channel_id = d.name

\* the ids of the live channels that some route names
ResolvedChannels ==
    {d.id : d \in {x \in LiveChannels : \E f \in Routes : RouteMatches(f, x)}}

C17_ResolvedRouteIsRouted ==
    (last_call.handler \in {"new", "edit", "delete"} /\ startup.pc = "RUNNING")
    => \A f \in Routes :
          (\E d \in LiveChannels : d.id = TgChannel /\ RouteMatches(f, d))
          => \E u \in Range(last_call.todo) : u[1] = f.forwarder_name

\* C20: the resolution does not retry for ever: when it has ended, the
\* handlers are registered or the bridge is in the fatal state.
C20_BoundedRetry ==
    startup.pc \notin {"REGISTER", "SLEEP", "ITERATE", "RESOLVED"}
    => startup.pc \in {"RUNNING", "EXITED"}

\* C21: a tick fetches and replays only if both the connectivity flag and
\* the Telegram health flag are true at its check; otherwise it goes back to
\* WAITING with no fetch, no send and no write to the store; and messages are
\* fetched only inside a tick that passed the check.
C21_RecoveryGating ==
    /\ [][(rec_state = "CHECKING" /\ rec_state' # rec_state)
          => IF internet_connected /\ telegram_is_healthy
             THEN rec_state' = "REPLAYING"
             ELSE /\ rec_state' = "WAITING"
                  /\ UNCHANGED <<storeVars, discord_messages, next_discord_id,
                                 last_messages, fetched_messages>>]_vars
    /\ [][(fetched_messages' # fetched_messages
           \/ (last_messages' # last_messages /\ last_messages' # <<>>))
          => (rec_state = "REPLAYING"
              \/ (rec_state = "CHECKING"
                  /\ internet_connected /\ telegram_is_healthy))]_vars

\* a tick ended at its check although a message of the channel has no mapping
C21_Witness ==
    /\ last_call = SkippedCall
    /\ rec_state = "WAITING"
    /\ ~(internet_connected /\ telegram_is_healthy)
    /\ \E m \in tg_messages, n \in ConfiguredNames :
          MappingsOf(mapping_data, n, m.id) = {}

C23_NoDuplicateSend ==
    [][\A n \in ForwarderNames, id \in 1..MaxMsgId :
          MappingsOf(mapping_data, n, id) # {}
          => {d \in discord_messages' :
                 d.forwarder_name = n /\ d.tg_id = id}
             \subseteq SentFor(n, id)]_vars

====
